---- MODULE Spec2Model ----
(***************************************************************************)
(* A model of unoserver's converter (src/src/unoserver/converter.py):      *)
(* the UnoConverter session with its two lazily filled filter caches,      *)
(* find_filter, get_filter_names, and the convert pipeline                 *)
(* (load, index refresh, classification, output resolution, filter         *)
(* selection, option parsing, export, result, cleanup).                    *)
(*                                                                         *)
(* Python strings whose characters the code inspects (filter names,        *)
(* aliases, paths, extensions, option strings) are sequences of chunks: a  *)
(* chunk is a non-empty piece of text, and the chunks ".", "/" and "=" are *)
(* the only ones that contain those characters.  "" is <<>>, "true" is     *)
(* <<"true">>, "out.pdf" is <<"out", ".", "pdf">>.  Concatenation is \o.   *)
(* Document service names and file contents are never inspected and are    *)
(* plain strings.                                                          *)
(***************************************************************************)
EXTENDS Integers, Sequences, FiniteSets, TLC

VARIABLES
    importCatalog,    \* remote engine: the import filter catalog (iflags=1)
    exportCatalog,    \* remote engine: the export filter catalog (iflags=2)
    fs,               \* the file system: path -> content, or NoFile
    _import_filters,  \* self._import_filters: NoList (None) or <<list>>
    _export_filters,  \* self._export_filters: NoList (None) or <<list>>
    queries,          \* history: catalog queries issued, per direction
    first,            \* history: first sequence returned, per direction
    repeats,          \* history: "none", or how the later returns compare to the first
    failed,           \* history: a catalog query or enumeration raised
    found,            \* the last find_filter call and what it returned
    names,            \* the last get_filter_names call and what it returned
    parsed,           \* the last stand-alone run of the option parsing loop
    pc,               \* position of the convert call ("idle" between calls)
    req,              \* the arguments of the convert call in progress
    loc,              \* the local variables of the convert call in progress
    calls             \* the remote operations the convert call invoked, in order

vars == <<importCatalog, exportCatalog, fs, _import_filters, _export_filters,
          queries, first, repeats, failed, found, names, parsed, pc, req, loc, calls>>

registryVars == <<importCatalog, exportCatalog, _import_filters, _export_filters,
                  queries, first, repeats, failed>>

convertVars == <<pc, req, loc, calls>>

(***************************************************************************)
(* Bounds of the model.                                                    *)
(***************************************************************************)
MaxCatalog == 2     \* descriptors in an arbitrary remote catalog
MaxFilters == 2     \* descriptors in an argument of get_filter_names
MaxUserData == 1    \* entries in a descriptor's UserData
MaxOptLen == 3      \* chunks in one option string
MaxOpts == 1        \* option strings in filter_options
MaxIndexes == 2     \* document indexes of a loaded document
MaxQueries == 3     \* catalog queries per direction the model follows

SeqsUpTo(S, n) == UNION {[1..k -> S] : k \in 0..n}

(***************************************************************************)
(* Python values.                                                          *)
(***************************************************************************)
None == <<"<None>">>        \* None where the code expects a string
NoList == <<>>              \* None where the code expects a list (else <<list>>)
NoBytes == "<None>"         \* None where the code expects bytes
NoFile == "<absent>"        \* the path does not exist

Truthy(x) == x # None /\ x # <<>>

Contains(s, c) == \E i \in 1..Len(s) : s[i] = c

DOC_TYPES ==
    { "com.sun.star.sheet.SpreadsheetDocument",
      "com.sun.star.text.TextDocument",
      "com.sun.star.presentation.PresentationDocument",
      "com.sun.star.drawing.DrawingDocument",
      "com.sun.star.sdb.DocumentDataSource",
      "com.sun.star.formula.FormulaProperties",
      "com.sun.star.script.BasicIDE",
      "com.sun.star.text.WebDocument" }

TextDocument == "com.sun.star.text.TextDocument"
SpreadsheetDocument == "com.sun.star.sheet.SpreadsheetDocument"
WebDocument == "com.sun.star.text.WebDocument"
OfficeDocument == "com.sun.star.document.OfficeDocument"

(***************************************************************************)
(* The remote engine's catalogs.  A descriptor is what prop2dict makes of  *)
(* one catalog element.                                                    *)
(***************************************************************************)
Filter(name, service, type, userdata) ==
    [Name |-> name, DocumentService |-> service, Type |-> type, UserData |-> userdata]

PdfType == <<"pdf_Portable_Document_Format">>
Writer8Type == <<"writer8">>

StdImportCatalog ==
    << Filter(<<"writer8">>, TextDocument, Writer8Type, << <<"odt">>, <<>> >>),
       Filter(<<"calc8">>, SpreadsheetDocument, <<"calc8">>, << <<"ods">> >>) >>

StdExportCatalog ==
    << Filter(<<"writer_pdf_Export">>, TextDocument, PdfType, << <<"pdf">>, <<"true">> >>),
       Filter(<<"calc_pdf_Export">>, SpreadsheetDocument, PdfType, << <<>> >>) >>

\* Arbitrary descriptors, for the claims about every catalog.
AnyNames == { <<"n1">>, <<"n2">> }
AnyServices == { TextDocument, SpreadsheetDocument }
AnyTypes == { PdfType, Writer8Type }
AnyCatalogs ==
    SeqsUpTo({ Filter(n, s, t, <<>>) : n \in AnyNames, s \in AnyServices, t \in AnyTypes },
             MaxCatalog)

\* Arbitrary Name and UserData, for the claims about every filter sequence.
AliasPool == { <<>>, <<"true">>, <<"a", ".", "b">>, <<"/", "a">>, <<"n1">> }
NamePool == { <<"n1">>, <<"n2">>, <<"true">> }
AnyFilterSeqs ==
    SeqsUpTo({ Filter(n, TextDocument, PdfType, u) :
                 n \in NamePool, u \in SeqsUpTo(AliasPool, MaxUserData) },
             MaxFilters)

(***************************************************************************)
(* get_available_import_filters / get_available_export_filters.            *)
(* o is what the remote engine does if it is asked: o < Len(catalog),      *)
(* nextElement raises after o elements were fetched; o = Len(catalog), the *)
(* enumeration succeeds.  The result is the new cache, whether the call    *)
(* raised, the list returned and whether the remote query was issued.      *)
(***************************************************************************)
EnumOutcomes(catalog) == 0..Len(catalog)

\* "if self._import_filters:" instead of "is not None"
get_available_filters_if_truthy(cache, catalog, o) ==
    IF cache # NoList /\ cache[1] # <<>>
    THEN [cache |-> cache, raised |-> FALSE, ret |-> cache[1], queried |-> FALSE]
    ELSE [cache |-> <<SubSeq(catalog, 1, o)>>, raised |-> o < Len(catalog),
          ret |-> SubSeq(catalog, 1, o), queried |-> TRUE]

get_available_filters(cache, catalog, o) ==
    IF cache # NoList
    THEN [cache |-> cache, raised |-> FALSE, ret |-> cache[1], queried |-> FALSE]
    ELSE [cache |-> <<SubSeq(catalog, 1, o)>>, raised |-> o < Len(catalog),
          ret |-> SubSeq(catalog, 1, o), queried |-> TRUE]

get_available_import_filters(o) == get_available_filters(_import_filters, importCatalog, o)

get_available_export_filters(o) == get_available_filters(_export_filters, exportCatalog, o)

\* The history of one direction after a call with result r.
Observed(dir, r) ==
    /\ queries' = [queries EXCEPT ![dir] = @ + (IF r.queried THEN 1 ELSE 0)]
    /\ failed' = [failed EXCEPT ![dir] = @ \/ r.raised]
    /\ first' = [first EXCEPT ![dir] = IF ~r.raised /\ @ = NoList THEN <<r.ret>> ELSE @]
    /\ repeats' = [repeats EXCEPT ![dir] =
                      IF r.raised \/ first[dir] = NoList \/ @ = "differ" THEN @
                      ELSE IF first[dir] = <<r.ret>> THEN "same" ELSE "differ"]

CanAsk(dir, cache) == cache # NoList \/ queries[dir] < MaxQueries

(***************************************************************************)
(* find_filter: the for loop over the export filters, with its two         *)
(* continue statements.                                                    *)
(***************************************************************************)
RECURSIVE find_filter_from(_, _, _, _)
find_filter_from(filters, i, import_type, export_type) ==
    IF i > Len(filters) THEN None
    ELSE IF filters[i].DocumentService # import_type
    THEN find_filter_from(filters, i + 1, import_type, export_type)
    ELSE IF filters[i].Type # export_type
    THEN find_filter_from(filters, i + 1, import_type, export_type)
    ELSE filters[i].Name

\* the DocumentService test left out
find_filter_type_only(filters, import_type, export_type) ==
    LET hits == { i \in 1..Len(filters) : filters[i].Type = export_type }
    IN  IF hits = {} THEN None
        ELSE filters[CHOOSE i \in hits : \A j \in hits : i <= j].Name

\* the first descriptor as a default when none matches
find_filter_or_first(filters, import_type, export_type) ==
    LET f == find_filter_from(filters, 1, import_type, export_type)
    IN  IF f = None /\ filters # <<>> THEN filters[1].Name ELSE f

find_filter(filters, import_type, export_type) ==
    find_filter_from(filters, 1, import_type, export_type)

(***************************************************************************)
(* get_filter_names: a dict is a function from its keys; an assignment     *)
(* names[k] = v adds the key or overwrites its value.                      *)
(***************************************************************************)
EmptyDict == [k \in {} |-> <<>>]

Put(d, k, v) == [x \in DOMAIN d \cup {k} |-> IF x = k THEN v ELSE d[x]]

\* no UserData entry skipped
AliasKeptAny(x) == TRUE

AliasKept(x) == x # <<>> /\ x # <<"true">> /\ ~Contains(x, ".")

RECURSIVE add_aliases(_, _, _, _)
add_aliases(d, name, userdata, i) ==
    IF i > Len(userdata) THEN d
    ELSE IF AliasKept(userdata[i])
    THEN add_aliases(Put(d, userdata[i], name), name, userdata, i + 1)
    ELSE add_aliases(d, name, userdata, i + 1)

RECURSIVE get_filter_names_from(_, _, _)
get_filter_names_from(d, filters, i) ==
    IF i > Len(filters) THEN d
    ELSE get_filter_names_from(
             add_aliases(Put(d, filters[i].Name, filters[i].Name),
                         filters[i].Name, filters[i].UserData, 1),
             filters, i + 1)

get_filter_names(filters) == get_filter_names_from(EmptyDict, filters, 1)

(***************************************************************************)
(* The option parsing loop of convert.  A PropertyValue's Value is a       *)
(* Python bool, int or str.                                                *)
(***************************************************************************)
PyBool(b) == [kind |-> "bool", b |-> b, n |-> 0, s |-> <<>>]
PyInt(n) == [kind |-> "int", b |-> FALSE, n |-> n, s |-> <<>>]
PyStr(s) == [kind |-> "str", b |-> FALSE, n |-> 0, s |-> s]

PropertyValue(name, value) == [Name |-> name, Value |-> value]

DigitValue(c) == CASE c = "0" -> 0 [] c = "3" -> 3 [] c = "7" -> 7
Digits == {"0", "3", "7"}

isdecimal(s) == Len(s) > 0 /\ \A i \in 1..Len(s) : s[i] \in Digits

RECURSIVE int(_)
int(s) == IF Len(s) = 0 THEN 0
          ELSE 10 * int(SubSeq(s, 1, Len(s) - 1)) + DigitValue(s[Len(s)])

FirstIndex(s, c) == CHOOSE i \in 1..Len(s) : s[i] = c /\ \A j \in 1..(i - 1) : s[j] # c
LastIndex(s, c) == CHOOSE i \in 1..Len(s) : s[i] = c /\ \A j \in (i + 1)..Len(s) : s[j] # c

\* option.rsplit("=", maxsplit=1)
split_at_last(option) ==
    LET i == LastIndex(option, "=")
    IN  <<SubSeq(option, 1, i - 1), SubSeq(option, i + 1, Len(option))>>

\* option.split("=", maxsplit=1)
split_option(option) ==
    LET i == FirstIndex(option, "=")
    IN  <<SubSeq(option, 1, i - 1), SubSeq(option, i + 1, Len(option))>>

coerce(option_value) ==
    IF option_value = <<"false">> THEN PyBool(FALSE)
    ELSE IF option_value = <<"true">> THEN PyBool(TRUE)
    ELSE IF isdecimal(option_value) THEN PyInt(int(option_value))
    ELSE PyStr(option_value)

\* One iteration of the loop: option_name (None if there is no "=") and
\* the coerced option_value.
parse_option(option) ==
    IF Contains(option, "=")
    THEN [option_name |-> split_option(option)[1],
          option_value |-> coerce(split_option(option)[2])]
    ELSE [option_name |-> None, option_value |-> coerce(option)]

RECURSIVE parse_options_from(_, _, _, _)
parse_options_from(export_filter_data, export_filter_options, filter_options, i) ==
    IF i > Len(filter_options)
    THEN [export_filter_data |-> export_filter_data,
          export_filter_options |-> export_filter_options]
    ELSE LET o == parse_option(filter_options[i])
         IN  IF o.option_name # None
             THEN parse_options_from(
                      Append(export_filter_data, PropertyValue(o.option_name, o.option_value)),
                      export_filter_options, filter_options, i + 1)
             ELSE parse_options_from(
                      export_filter_data,
                      Append(export_filter_options,
                             PropertyValue(<<"FilterOptions">>, o.option_value)),
                      filter_options, i + 1)

parse_options(filter_options) == parse_options_from(<<>>, <<>>, filter_options, 1)

\* output_props: FilterName, Overwrite, FilterData (absent when there is no
\* named option, here the empty tuple) and the bare options, in order.
make_output_props(filtername, filter_options) ==
    LET p == parse_options(filter_options)
    IN  [FilterName |-> filtername, Overwrite |-> TRUE,
         FilterData |-> p.export_filter_data,
         FilterOptions |-> p.export_filter_options]

NoProps == [FilterName |-> None, Overwrite |-> FALSE, FilterData |-> <<>>, FilterOptions |-> <<>>]

OptionChunks == {"=", "true", "false", "3", "a"}
AnyOptions == SeqsUpTo(OptionChunks, MaxOptLen)
AnyOptionLists == SeqsUpTo(AnyOptions, MaxOpts)

(***************************************************************************)
(* The file system and TempFileIfNeeded.                                   *)
(***************************************************************************)
InOdt == <<"in", ".", "odt">>
MissingOdt == <<"missing", ".", "odt">>
OutPdf == <<"out", ".", "pdf">>
OutXyz == <<"out", ".", "xyz">>

\* tempfile.NamedTemporaryFile(suffix=suffix): a fresh name ending in suffix.
TempName(tag, suffix) == <<tag>> \o suffix

Extensions == { <<"pdf">>, <<"xyz">> }
Paths == { InOdt, MissingOdt, OutPdf, OutXyz, TempName("tmpA", <<>>), TempName("tmpB", <<".">>) }
         \cup { TempName("tmpB", <<".">> \o e) : e \in Extensions }

OdtBytes == "odt-bytes"     \* bytes a caller passes as indata
OdtFile == "odt-file"       \* what the caller's file in.odt holds
Rendered == "rendered-bytes"
Empty == ""

InitialFiles == [p \in Paths |-> IF p = InOdt THEN OdtFile ELSE NoFile]

\* a temporary file whatever path is given
TempFileAlways(f, path, tag, suffix, data) ==
    [path |-> TempName(tag, suffix), temp |-> TRUE,
     fs |-> [f EXCEPT ![TempName(tag, suffix)] =
                IF data # NoBytes /\ data # Empty THEN data ELSE Empty]]

\* TempFileIfNeeded on entry: the path yielded, whether it is a temporary
\* file, and the file system after the file was created and written.
TempFileIfNeeded(f, path, tag, suffix, data) ==
    IF Truthy(path)
    THEN [path |-> path, temp |-> FALSE, fs |-> f]
    ELSE [path |-> TempName(tag, suffix), temp |-> TRUE,
          fs |-> [f EXCEPT ![TempName(tag, suffix)] =
                     IF data # NoBytes /\ data # Empty THEN data ELSE Empty]]

\* the existence check left out
ExistsUnchecked(f, path) == TRUE

\* Path(input_path).exists()
Exists(f, path) == f[path] # NoFile

\* os.path.splitext(path)[-1]
splitext(path) ==
    IF Contains(path, ".") THEN SubSeq(path, LastIndex(path, "."), Len(path)) ELSE <<>>

\* The remote type detection, queryTypeByURL: by the extension of the URL.
queryTypeByURL(path) ==
    IF splitext(path) = <<".", "pdf">> THEN PdfType
    ELSE IF splitext(path) = <<".", "odt">> THEN Writer8Type
    ELSE <<>>

(***************************************************************************)
(* Documents the remote engine may hand back from a load.                  *)
(***************************************************************************)
Document(services, refreshable, indexes, count) ==
    [services |-> services, refreshable |-> refreshable, indexes |-> indexes, count |-> count]

NoDocument == Document({}, FALSE, FALSE, 0)

Documents ==
    { Document({TextDocument}, TRUE, TRUE, MaxIndexes),
      Document({TextDocument, WebDocument}, TRUE, FALSE, 0),
      Document({SpreadsheetDocument}, FALSE, FALSE, 0),
      Document({OfficeDocument}, FALSE, FALSE, 0) }

\* every supported service name taken for a document type
get_doc_type_any(doc) == doc.services

get_doc_type_types(doc) == DOC_TYPES \cap doc.services

Count(log, op) == Cardinality({ i \in 1..Len(log) : log[i] = op })

\* only the first of the indexes
RepeatOnce(x, n) == IF n = 0 THEN <<>> ELSE <<x>>

RECURSIVE Repeat(_, _)
Repeat(x, n) == IF n = 0 THEN <<>> ELSE <<x>> \o Repeat(x, n - 1)

(***************************************************************************)
(* The arguments and the local variables of convert.                       *)
(***************************************************************************)
Request(inpath, indata, outpath, convert_to, filtername, filter_options, update_index, infiltername) ==
    [inpath |-> inpath, indata |-> indata, outpath |-> outpath,
     convert_to |-> convert_to, filtername |-> filtername,
     filter_options |-> filter_options, update_index |-> update_index,
     infiltername |-> infiltername]

\* The defaults of the signature.  An argument is drawn from its set when
\* convert first reads it (nothing convert does before depends on it) and
\* holds its default until then.
Defaults == Request(None, NoBytes, None, None, None, <<>>, TRUE, None)

InPaths == { None, InOdt, MissingOdt }
InDatas == { NoBytes, OdtBytes }
OutPaths == { None, <<>>, OutPdf, OutXyz }
ConvertTos == { None, <<>> } \cup Extensions
ExportFilterNames == { None, <<"writer_pdf_Export">>, <<"pdf">>, <<"nofilter">> }
ImportFilterNames == { None, <<"odt">>, <<"nofilter">> }
OptionLists ==
    { <<>>,
      << <<"a", "=", "3">>, <<"true">>, <<"a", "=", "a", "=", "a">>, <<"3">>, <<"a">> >> }

NoLocals ==
    [input_filter |-> None,       \* FilterName of input_props, None if absent
     input_path |-> None, temp_in |-> FALSE,
     loaded |-> FALSE,            \* the load returned a document
     loaded_from |-> NoBytes,     \* the bytes at the path the load was given
     document |-> NoDocument,
     ii |-> 0,
     import_type |-> "",
     output_path |-> None, temp_out |-> FALSE,
     export_type |-> None,
     filtername |-> None,
     output_props |-> NoProps,
     stored |-> NoBytes,          \* what storeToURL wrote to the output path
     result |-> NoBytes,          \* the return value
     error |-> "none",            \* the exception raised, "none" on return
     error_args |-> <<>>]         \* what the message of the exception names

\* the temporary files left behind
ExitScopesKeep(f, l) == f

\* The scopes convert leaves when it returns or raises: the two
\* NamedTemporaryFile contexts delete their file.
ExitScopes(f, l) ==
    [p \in DOMAIN f |->
        IF (l.temp_in /\ p = l.input_path) \/ (l.temp_out /\ p = l.output_path)
        THEN NoFile ELSE f[p]]

\* if outpath is None: with open(output_path, "rb") as output: return output.read()
convert_result(f, outpath, output_path) ==
    IF outpath = None THEN f[output_path] ELSE NoBytes

\* An exception leaves convert: from inside the try block the finally
\* clause closes the document first.
Raise(l, log, f, kind, args, inTry) ==
    /\ pc' = "done"
    /\ loc' = [l EXCEPT !.error = kind, !.error_args = args]
    /\ calls' = IF inTry THEN Append(log, "close") ELSE log
    /\ fs' = ExitScopes(f, l)

(***************************************************************************)
(* The registry operations, called on an idle session.                     *)
(***************************************************************************)
GetAvailableImportFilters ==
    /\ pc = "idle"
    /\ CanAsk("import", _import_filters)
    /\ \E o \in EnumOutcomes(importCatalog) :
         LET r == get_available_import_filters(o)
         IN  /\ _import_filters' = r.cache
             /\ Observed("import", r)
    /\ UNCHANGED <<importCatalog, exportCatalog, fs, _export_filters,
                   found, names, parsed, pc, req, loc, calls>>

GetAvailableExportFilters ==
    /\ pc = "idle"
    /\ CanAsk("export", _export_filters)
    /\ \E o \in EnumOutcomes(exportCatalog) :
         LET r == get_available_export_filters(o)
         IN  /\ _export_filters' = r.cache
             /\ Observed("export", r)
    /\ UNCHANGED <<importCatalog, exportCatalog, fs, _import_filters,
                   found, names, parsed, pc, req, loc, calls>>

NotFound ==
    [called |-> FALSE, import_type |-> "", export_type |-> <<>>,
     scanned |-> <<>>, raised |-> FALSE, value |-> None]

FindFilter ==
    /\ pc = "idle"
    /\ CanAsk("export", _export_filters)
    /\ \E import_type \in AnyServices, export_type \in AnyTypes,
          o \in EnumOutcomes(exportCatalog) :
         LET r == get_available_export_filters(o)
         IN  /\ _export_filters' = r.cache
             /\ Observed("export", r)
             /\ found' = [called |-> TRUE, import_type |-> import_type,
                          export_type |-> export_type, scanned |-> r.ret,
                          raised |-> r.raised,
                          value |-> IF r.raised THEN None
                                    ELSE find_filter(r.ret, import_type, export_type)]
    /\ UNCHANGED <<importCatalog, exportCatalog, fs, _import_filters,
                   names, parsed, pc, req, loc, calls>>

NoNames == [called |-> FALSE, filters |-> <<>>, table |-> EmptyDict]

\* get_filter_names applied to the filter sequence it was handed
GetFilterNames ==
    /\ pc = "idle"
    /\ ~names.called
    /\ names' = [names EXCEPT !.called = TRUE, !.table = get_filter_names(names.filters)]
    /\ UNCHANGED <<registryVars, fs, found, parsed, convertVars>>

NotParsed == [called |-> FALSE, filter_options |-> <<>>, output_props |-> NoProps]

\* The option parsing loop and output_props on their own.
ParseOptions ==
    /\ pc = "idle"
    /\ ~parsed.called
    /\ parsed' = [parsed EXCEPT !.called = TRUE,
                     !.output_props = make_output_props(<<"writer_pdf_Export">>,
                                                        parsed.filter_options)]
    /\ UNCHANGED <<registryVars, fs, found, names, convertVars>>

(***************************************************************************)
(* convert, step by step.                                                  *)
(***************************************************************************)
\* input_props and the import filter name
ConvertCall ==
    /\ pc = "idle"
    /\ \E infiltername \in ImportFilterNames :
         req' = [Defaults EXCEPT !.infiltername = infiltername]
    /\ pc' = "infilter"
    /\ loc' = NoLocals
    /\ calls' = <<>>
    /\ found' = NotFound
    /\ UNCHANGED <<registryVars, fs, names, parsed>>

ConvertImportFilter ==
    /\ pc = "infilter"
    /\ UNCHANGED req
    /\ IF ~Truthy(req.infiltername)
       THEN /\ pc' = "input"
            /\ UNCHANGED <<registryVars, fs, loc, calls>>
       ELSE /\ CanAsk("import", _import_filters)
            /\ \E o \in EnumOutcomes(importCatalog) :
                 LET r == get_available_import_filters(o)
                     infilters == get_filter_names(r.ret)
                 IN  /\ _import_filters' = r.cache
                     /\ Observed("import", r)
                     /\ IF r.raised
                        THEN Raise(loc, calls, fs, "EnumerationError", <<>>, FALSE)
                        ELSE IF req.infiltername \in DOMAIN infilters
                        THEN /\ pc' = "input"
                             /\ loc' = [loc EXCEPT !.input_filter = infilters[req.infiltername]]
                             /\ UNCHANGED <<fs, calls>>
                        ELSE Raise(loc, calls, fs, "InvalidFilterName",
                                   <<req.infiltername>>, FALSE)
            /\ UNCHANGED <<importCatalog, exportCatalog, _export_filters>>
    /\ UNCHANGED <<found, names, parsed>>

\* with TempFileIfNeeded(inpath, ...) and the existence check
ConvertInput ==
    /\ pc = "input"
    /\ \E inpath \in InPaths, indata \in InDatas :
         LET t == TempFileIfNeeded(fs, inpath, "tmpA", <<>>, indata)
             l == [loc EXCEPT !.input_path = t.path, !.temp_in = t.temp]
         IN  /\ req' = [req EXCEPT !.inpath = inpath, !.indata = indata]
             /\ IF ~Exists(t.fs, t.path)
                THEN Raise(l, calls, t.fs, "InputNotFound", <<t.path>>, FALSE)
                ELSE /\ pc' = "load"
                     /\ loc' = l
                     /\ fs' = t.fs
                     /\ UNCHANGED calls
    /\ UNCHANGED <<registryVars, found, names, parsed>>

\* desktop.loadComponentFromURL and the check of its result
ConvertLoad ==
    /\ pc = "load"
    /\ LET log == Append(calls, "loadComponentFromURL")
       IN  \/ \E doc \in Documents, update_index \in BOOLEAN :
                /\ loc' = [loc EXCEPT !.loaded = TRUE, !.document = doc,
                                      !.loaded_from = fs[loc.input_path]]
                /\ calls' = log
                /\ req' = [req EXCEPT !.update_index = update_index]
                /\ pc' = IF update_index THEN "refresh" ELSE "classify"
                /\ UNCHANGED fs
           \/ /\ Raise(loc, log, fs, "DocumentLoadFailure",
                       << IF Truthy(req.inpath) THEN req.inpath ELSE <<"<remote file>">>,
                          IF Truthy(req.infiltername) THEN req.infiltername
                          ELSE <<"default">> >>,
                       FALSE)
              /\ UNCHANGED req
           \/ /\ Raise(loc, log, fs, "RemoteError", <<>>, FALSE)
              /\ UNCHANGED req
    /\ UNCHANGED <<registryVars, found, names, parsed>>

RefreshPasses == 2

\* the AttributeError let out of convert
except_AttributeError_raise(l, log, f) == Raise(l, log, f, "AttributeError", <<>>, FALSE)

\* except AttributeError: break
except_AttributeError(l, log, f) ==
    /\ pc' = "classify"
    /\ loc' = l
    /\ calls' = log
    /\ fs' = f

\* One pass of the index refresh loop.  The engine may raise from refresh
\* or from an index's update; a missing refresh or getDocumentIndexes is
\* the AttributeError that ends the loop.
ConvertRefresh ==
    /\ pc = "refresh"
    /\ LET doc == loc.document
       IN  IF ~doc.refreshable
           THEN except_AttributeError(loc, calls, fs)
           ELSE \/ Raise(loc, Append(calls, "refresh"), fs, "RemoteError", <<>>, FALSE)
                \/ /\ ~doc.indexes
                   /\ except_AttributeError(loc, Append(calls, "refresh"), fs)
                \/ /\ doc.indexes
                   /\ calls' = calls \o <<"refresh", "getDocumentIndexes">>
                                     \o Repeat("update", doc.count)
                   /\ loc' = [loc EXCEPT !.ii = @ + 1]
                   /\ pc' = IF loc.ii + 1 < RefreshPasses THEN "refresh" ELSE "classify"
                   /\ UNCHANGED fs
                \/ /\ doc.indexes
                   /\ \E k \in 1..doc.count :
                        Raise(loc, calls \o <<"refresh", "getDocumentIndexes">>
                                         \o Repeat("update", k),
                              fs, "RemoteError", <<>>, FALSE)
    /\ UNCHANGED <<registryVars, found, names, parsed, req>>

\* try: import_type = get_doc_type(document)
ConvertClassify ==
    /\ pc = "classify"
    /\ LET log == Append(calls, "getSupportedServiceNames")
           types == get_doc_type_types(loc.document)
       IN  IF types = {}
           THEN Raise(loc, log, fs, "UnknownDocumentType", <<>>, TRUE)
           ELSE /\ \E t \in types : loc' = [loc EXCEPT !.import_type = t]
                /\ calls' = log
                /\ pc' = "output"
                /\ UNCHANGED fs
    /\ UNCHANGED <<registryVars, found, names, parsed, req>>

\* with TempFileIfNeeded(outpath, "." + convert_to) and the type detection
ConvertOutput ==
    /\ pc = "output"
    /\ \E outpath \in OutPaths, convert_to \in ConvertTos :
         /\ req' = [req EXCEPT !.outpath = outpath, !.convert_to = convert_to]
         /\ IF convert_to = None
            THEN Raise(loc, calls, fs, "TypeError", <<>>, TRUE)
            ELSE LET t == TempFileIfNeeded(fs, outpath, "tmpB", <<".">> \o convert_to, NoBytes)
                     export_type == queryTypeByURL(t.path)
                     l == [loc EXCEPT !.output_path = t.path, !.temp_out = t.temp,
                                      !.export_type = export_type]
                     log == Append(calls, "queryTypeByURL")
                 IN  IF ~Truthy(export_type)
                     THEN Raise(l, log, t.fs, "UnknownExportType",
                                << IF Truthy(convert_to) THEN convert_to
                                   ELSE splitext(t.path) >>, TRUE)
                     ELSE /\ pc' = "filter"
                          /\ loc' = l
                          /\ calls' = log
                          /\ fs' = t.fs
    /\ UNCHANGED <<registryVars, found, names, parsed>>

\* the explicit export filter name, or find_filter
ConvertFilter ==
    /\ pc = "filter"
    /\ CanAsk("export", _export_filters)
    /\ \E filtername \in ExportFilterNames, o \in EnumOutcomes(exportCatalog) :
         LET r == get_available_export_filters(o)
         IN  /\ req' = [req EXCEPT !.filtername = filtername]
             /\ _export_filters' = r.cache
             /\ Observed("export", r)
             /\ IF r.raised
                THEN Raise(loc, calls, fs, "EnumerationError", <<>>, TRUE)
                ELSE IF filtername # None
                THEN IF filtername \notin DOMAIN get_filter_names(r.ret)
                     THEN Raise(loc, calls, fs, "InvalidFilterName", <<filtername>>, TRUE)
                     ELSE /\ pc' = "export"
                          /\ loc' = [loc EXCEPT !.filtername = filtername]
                          /\ UNCHANGED <<calls, fs>>
                ELSE LET f == find_filter(r.ret, loc.import_type, loc.export_type)
                     IN  IF f = None
                         THEN Raise(loc, calls, fs, "FilterResolutionFailure",
                                    << <<loc.import_type>>, loc.export_type >>, TRUE)
                         ELSE /\ pc' = "export"
                              /\ loc' = [loc EXCEPT !.filtername = f]
                              /\ UNCHANGED <<calls, fs>>
    /\ UNCHANGED <<importCatalog, exportCatalog, _import_filters, found, names, parsed>>

\* storeToURL commanded a second time
ConvertExportRetry ==
    /\ pc = "export"
    /\ \E filter_options \in OptionLists :
         LET l == [loc EXCEPT !.output_props = make_output_props(loc.filtername,
                                                                 filter_options)]
             log == calls \o <<"storeToURL", "storeToURL">>
             stored == [fs EXCEPT ![loc.output_path] = Rendered]
         IN  /\ req' = [req EXCEPT !.filter_options = filter_options]
             /\ pc' = "done"
             /\ loc' = [l EXCEPT !.stored = Rendered,
                                 !.result = convert_result(stored, req.outpath,
                                                           loc.output_path)]
             /\ calls' = Append(log, "close")
             /\ fs' = ExitScopes(stored, loc)
    /\ UNCHANGED <<registryVars, found, names, parsed>>

\* the option parsing, output_props, document.storeToURL and the result:
\* if outpath is None the bytes of the output file are read and returned;
\* then the with blocks and the finally clause are left
ConvertExport ==
    /\ pc = "export"
    /\ \E filter_options \in OptionLists :
         LET l == [loc EXCEPT !.output_props = make_output_props(loc.filtername,
                                                                 filter_options)]
             log == Append(calls, "storeToURL")
         IN  /\ req' = [req EXCEPT !.filter_options = filter_options]
             /\ \/ LET stored == [fs EXCEPT ![loc.output_path] = Rendered]
                   IN  /\ pc' = "done"
                       /\ loc' = [l EXCEPT !.stored = Rendered,
                                           !.result = convert_result(stored, req.outpath,
                                                                     loc.output_path)]
                       /\ calls' = Append(log, "close")
                       /\ fs' = ExitScopes(stored, loc)
                \/ Raise(l, log, fs, "RemoteError", <<>>, TRUE)
    /\ UNCHANGED <<registryVars, found, names, parsed>>

\* convert has returned or raised; the session is idle again
ConvertReturn ==
    /\ pc = "done"
    /\ pc' = "idle"
    /\ req' = Defaults
    /\ loc' = NoLocals
    /\ calls' = <<>>
    /\ UNCHANGED <<registryVars, fs, found, names, parsed>>

Convert ==
    \/ ConvertImportFilter
    \/ ConvertInput
    \/ ConvertLoad
    \/ ConvertRefresh
    \/ ConvertClassify
    \/ ConvertOutput
    \/ ConvertFilter
    \/ ConvertExport
    \/ ConvertReturn

(***************************************************************************)
(* Specifications.                                                         *)
(***************************************************************************)
Directions == {"import", "export"}

InitSession ==
    /\ fs = InitialFiles
    /\ _import_filters = NoList
    /\ _export_filters = NoList
    /\ queries = [d \in Directions |-> 0]
    /\ first = [d \in Directions |-> NoList]
    /\ repeats = [d \in Directions |-> "none"]
    /\ failed = [d \in Directions |-> FALSE]
    /\ found = NotFound
    /\ pc = "idle"
    /\ req = Defaults
    /\ loc = NoLocals
    /\ calls = <<>>

\* One session against an engine with its usual catalogs or with an empty
\* one: any sequence of registry calls and convert calls.
Init ==
    /\ importCatalog \in { <<>>, StdImportCatalog }
    /\ exportCatalog \in { <<>>, StdExportCatalog }
    /\ InitSession
    /\ names = NoNames
    /\ parsed = NotParsed

Next ==
    \/ GetAvailableImportFilters
    \/ GetAvailableExportFilters
    \/ FindFilter
    \/ ConvertCall
    \/ Convert

Spec == Init /\ [][Next]_vars

\* find_filter over every export catalog.
InitFind ==
    /\ importCatalog = <<>>
    /\ exportCatalog \in AnyCatalogs
    /\ InitSession
    /\ names = NoNames
    /\ parsed = NotParsed

NextFind == GetAvailableExportFilters \/ FindFilter

SpecFind == InitFind /\ [][NextFind]_vars

\* get_filter_names over every filter sequence: the sequence is the
\* argument of the one call.
InitNames ==
    /\ importCatalog = StdImportCatalog
    /\ exportCatalog = StdExportCatalog
    /\ InitSession
    /\ \E filters \in AnyFilterSeqs : names = [NoNames EXCEPT !.filters = filters]
    /\ parsed = NotParsed

NextNames == GetFilterNames

SpecNames == InitNames /\ [][NextNames]_vars

\* The option parsing over every option list: the list is the
\* filter_options argument of the one call.
InitOptions ==
    /\ importCatalog = StdImportCatalog
    /\ exportCatalog = StdExportCatalog
    /\ InitSession
    /\ names = NoNames
    /\ \E filter_options \in AnyOptionLists :
         parsed = [NotParsed EXCEPT !.filter_options = filter_options]

NextOptions == ParseOptions

SpecOptions == InitOptions /\ [][NextOptions]_vars

(***************************************************************************)
(* The claims.                                                             *)
(***************************************************************************)
Loads == Count(calls, "loadComponentFromURL")
Stores == Count(calls, "storeToURL")
Closes == Count(calls, "close")

\* C1: when convert returns or raises, the document was closed exactly
\* once if the load returned a document, whichever later step failed, and
\* close was never invoked if the load returned none.
C1_ClosedExactlyOnce ==
    pc = "done" => Closes = (IF loc.loaded THEN 1 ELSE 0)

ImportAliasKnown(name) ==
    /\ _import_filters # NoList
    /\ name \in DOMAIN get_filter_names(_import_filters[1])

\* C2: the load is invoked only after a given import filter name was found
\* in the import alias table and the input path was found to exist; an
\* unknown import filter name ends the call with InvalidFilterName, a
\* missing input path with InputNotFound, both with no load and no close.
C2_LoadOnlyAfterChecks ==
    /\ Loads > 0 =>
          /\ Truthy(req.infiltername) => ImportAliasKnown(req.infiltername)
          /\ loc.temp_in \/ fs[loc.input_path] # NoFile
    /\ ( /\ pc = "done"
         /\ Truthy(req.infiltername)
         /\ ~ImportAliasKnown(req.infiltername)
         /\ loc.error # "EnumerationError" ) =>
          loc.error = "InvalidFilterName" /\ Loads = 0 /\ Closes = 0
    /\ ( /\ pc = "done"
         /\ loc.input_path # None
         /\ ~loc.temp_in
         /\ fs[loc.input_path] = NoFile ) =>
          loc.error = "InputNotFound" /\ Loads = 0 /\ Closes = 0

\* C2 witness: a call with a known import filter name and a missing input
\* path has ended without a load.
C2_Witness ==
    /\ pc = "done"
    /\ loc.error = "InputNotFound"
    /\ Truthy(req.infiltername)
    /\ loc.input_filter = <<"writer8">>
    /\ Loads = 0

\* A step of the pipeline reported a failure of its own.
StepFailed ==
    loc.error \in { "EnumerationError", "InvalidFilterName", "InputNotFound",
                    "DocumentLoadFailure", "RemoteError", "UnknownDocumentType",
                    "UnknownExportType", "FilterResolutionFailure" }

\* C3: with every step succeeding, a request with outputPath and without
\* targetExtension exports to outputPath and returns nothing, a request
\* with targetExtension and without outputPath returns the bytes; neither
\* raises.
C3_EitherFormReturns ==
    (pc = "done" /\ ~StepFailed) =>
        /\ ( /\ Truthy(req.outpath)
             /\ req.convert_to = None
             /\ Truthy(queryTypeByURL(req.outpath)) ) =>
              /\ loc.error = "none"
              /\ loc.result = NoBytes
              /\ Stores = 1
              /\ fs[req.outpath] = Rendered
        /\ (req.outpath = None /\ Truthy(req.convert_to)) =>
              /\ loc.error = "none"
              /\ loc.result = Rendered

\* The extension of a path, without its dot.
ExtensionOf(path) == SubSeq(path, LastIndex(path, ".") + 1, Len(path))

\* C4: a request with an outputPath whose extension the type detection
\* does not recognise ends with UnknownExportType naming the extension of
\* that outputPath, with no export commanded and the document closed.
C4_UnknownExportTypeNamesExtension ==
    ( /\ pc = "done"
      /\ Truthy(req.outpath)
      /\ ~Truthy(queryTypeByURL(req.outpath)) ) =>
        /\ loc.error = "UnknownExportType"
        /\ loc.error_args \in { <<splitext(req.outpath)>>, <<ExtensionOf(req.outpath)>> }
        /\ Stores = 0
        /\ Closes = 1

\* C5: while the catalog queries succeed, the remote catalog of each
\* direction is queried at most once over any sequence of registry and
\* convert calls, and every call returns the sequence the first call
\* returned, also when that sequence is empty.
C5_CatalogQueriedOnce ==
    \A d \in Directions :
        ~failed[d] => queries[d] <= 1 /\ repeats[d] # "differ"

\* C5 witness: the empty import catalog was returned by a first and by a
\* later call, after one query.
C5_Witness ==
    /\ importCatalog = <<>>
    /\ ~failed["import"]
    /\ first["import"] = << <<>> >>
    /\ repeats["import"] = "same"
    /\ queries["import"] = 1

DescriptorNames(filters) == { filters[i].Name : i \in 1..Len(filters) }

Matches(filters, import_type, export_type) ==
    { i \in 1..Len(filters) :
        filters[i].DocumentService = import_type /\ filters[i].Type = export_type }

\* C7, the result: find_filter returns the Name of the first descriptor, in
\* the order of the export catalog it scans, whose DocumentService and
\* Type both match, and None exactly when none matches; the catalog it
\* scans is the remote one while no enumeration has failed.
C7_FirstMatch ==
    (found.called /\ ~found.raised) =>
        LET m == Matches(found.scanned, found.import_type, found.export_type)
        IN  /\ ~failed["export"] => found.scanned = exportCatalog
            /\ (found.value = None) <=> (m = {})
            /\ m # {} => \E i \in m : /\ \A j \in m : i <= j
                                      /\ found.value = found.scanned[i].Name

\* C7, repetition: a call with the arguments of the call before it returns
\* what that call returned.
C7_Repeat ==
    ( /\ found.called /\ ~found.raised
      /\ found'.called /\ ~found'.raised
      /\ found'.import_type = found.import_type
      /\ found'.export_type = found.export_type ) => found'.value = found.value

\* C7: find_filter returns the first match in catalog order, None exactly
\* when there is none, and the same on a repeated call.
C7_FindFilter == [][C7_Repeat]_vars /\ []C7_FirstMatch

\* C7 witness: two descriptors of the catalog match and the Name of the
\* first was returned.
C7_Witness ==
    /\ found.called /\ ~found.raised
    /\ Matches(found.scanned, found.import_type, found.export_type) = {1, 2}
    /\ found.scanned[1].Name # found.scanned[2].Name
    /\ found.value = found.scanned[1].Name

HasEq(option) == Contains(option, "=")
NoEq(option) == ~Contains(option, "=")

\* C8: the options without "=" reach the export unchanged, as strings, in
\* the order of filter_options.
C8_BareOptionsAsIs ==
    Stores > 0 =>
        LET bare == SelectSeq(req.filter_options, NoEq)
        IN  loc.output_props.FilterOptions =
                [i \in 1..Len(bare) |-> PropertyValue(<<"FilterOptions">>, PyStr(bare[i]))]

RECURSIVE Pow10(_)
Pow10(n) == IF n = 0 THEN 1 ELSE 10 * Pow10(n - 1)

RECURSIVE DecimalValue(_)
DecimalValue(v) ==
    IF v = <<>> THEN 0
    ELSE DigitValue(Head(v)) * Pow10(Len(v) - 1) + DecimalValue(Tail(v))

TypedAs(value, v) ==
    IF v = <<"false">> THEN value = PyBool(FALSE)
    ELSE IF v = <<"true">> THEN value = PyBool(TRUE)
    ELSE IF v # <<>> /\ \A i \in 1..Len(v) : v[i] \in Digits
    THEN value = PyInt(DecimalValue(v))
    ELSE value = PyStr(v)

\* C9: every option with "=" becomes one named parameter: its name is the
\* text before the first "=", its value the rest, a boolean for "false"
\* and "true", an integer for a decimal string and a string otherwise;
\* it is not among the bare options.
C9_NamedOptionsTyped ==
    parsed.called =>
        LET named == SelectSeq(parsed.filter_options, HasEq)
            bare == SelectSeq(parsed.filter_options, NoEq)
            data == parsed.output_props.FilterData
        IN  /\ Len(data) = Len(named)
            /\ Len(parsed.output_props.FilterOptions) = Len(bare)
            /\ \A i \in 1..Len(named) :
                 LET n == Len(data[i].Name)
                 IN  /\ ~Contains(data[i].Name, "=")
                     /\ n < Len(named[i])
                     /\ SubSeq(named[i], 1, n + 1) = data[i].Name \o <<"=">>
                     /\ TypedAs(data[i].Value, SubSeq(named[i], n + 2, Len(named[i])))

\* C9 witness: "a=3" was parsed into the named integer 3.
C9_Witness ==
    /\ parsed.called
    /\ parsed.filter_options = << <<"a", "=", "3">> >>
    /\ parsed.output_props.FilterData = << PropertyValue(<<"a">>, PyInt(3)) >>
    /\ parsed.output_props.FilterOptions = <<>>

\* C10: a successful call without outputPath (None or empty) returns the
\* bytes the export wrote to the temporary file; a successful call with an
\* outputPath returns nothing.
C10_BytesOrNothing ==
    (pc = "done" /\ loc.error = "none") =>
        IF Truthy(req.outpath)
        THEN loc.result = NoBytes
        ELSE loc.result = loc.stored /\ loc.result # NoBytes

\* The names NamedTemporaryFile hands out.
IsTemp(p) == p[1] \in {"tmpA", "tmpB"}

C11_NoTempLeft ==
    pc \in {"done", "idle"} => \A p \in Paths : IsTemp(p) => fs[p] = NoFile

C11_CallerFilesKept ==
    \A p \in Paths : (~IsTemp(p) /\ fs[p] # NoFile) => fs'[p] # NoFile

\* C11: when a convert call has ended, by a return or by an exception of
\* any step, no temporary file it created exists any more, and no step
\* ever deletes a file that is not a temporary file (the caller's input
\* and output paths).
C11_TempFilesDeleted == []C11_NoTempLeft /\ [][C11_CallerFilesKept]_vars

\* C11 witness: a call that created a temporary input and a temporary
\* output file and exported into it has ended; a call with an input and
\* an output path of the caller is covered by C12_Witness.
C11_Witness ==
    /\ pc = "done"
    /\ loc.temp_in /\ loc.temp_out
    /\ loc.stored = Rendered
    /\ fs[loc.input_path] = NoFile /\ fs[loc.output_path] = NoFile

\* C12: when both inpath and indata are given, the path handed to the load
\* is inpath and the document is read from the file there, not from
\* indata; no temporary input file is created and the file at inpath
\* holds what it held before the call.
C12_PathTakesPrecedence ==
    ( /\ Truthy(req.inpath)
      /\ req.indata # NoBytes
      /\ pc \notin {"idle", "infilter", "input"} ) =>
        /\ loc.input_path = req.inpath
        /\ ~loc.temp_in
        /\ fs[TempName("tmpA", <<>>)] = NoFile
        /\ fs[req.inpath] = InitialFiles[req.inpath]
        /\ loc.loaded => loc.loaded_from = InitialFiles[req.inpath]

\* C12 witness: a call with inpath in.odt, indata and an output path of
\* the caller has loaded the file, exported and returned.
C12_Witness ==
    /\ pc = "done"
    /\ loc.error = "none"
    /\ req.inpath = InOdt
    /\ req.indata = OdtBytes
    /\ req.outpath = OutPdf
    /\ loc.loaded_from = OdtFile
    /\ fs[OutPdf] = Rendered

\* C13: a call that reached the filter selection without an explicit
\* export filter name, with no descriptor of the export catalog matching
\* the document type and the export type, ends with
\* FilterResolutionFailure naming both types; no filter was chosen, no
\* export was commanded and the document was closed once.
C13_NoDefaultFilter ==
    ( /\ pc = "done"
      /\ Truthy(loc.export_type)
      /\ req.filtername = None
      /\ loc.error # "EnumerationError"
      /\ Matches(exportCatalog, loc.import_type, loc.export_type) = {} ) =>
        /\ loc.error = "FilterResolutionFailure"
        /\ loc.error_args = << <<loc.import_type>>, loc.export_type >>
        /\ loc.filtername = None
        /\ Stores = 0
        /\ Closes = 1

\* C13 witness: a web document and the pdf type, with the usual export
\* catalog, which has no filter for that pair.
C13_Witness ==
    /\ pc = "done"
    /\ exportCatalog = StdExportCatalog
    /\ req.filtername = None
    /\ loc.import_type = WebDocument
    /\ loc.export_type = PdfType
    /\ loc.error = "FilterResolutionFailure"

Classified == Count(calls, "getSupportedServiceNames") > 0

\* C14: once the document was classified, the type returned is one of
\* DOC_TYPES and one of the service names the document supports; the call
\* fails with UnknownDocumentType exactly when no service name of the
\* document is in DOC_TYPES, and then it has ended with no export
\* commanded and the document closed once.
C14_Classification ==
    Classified =>
        LET known == DOC_TYPES \cap loc.document.services
        IN  /\ (loc.error = "UnknownDocumentType") <=> (known = {})
            /\ known # {} => loc.import_type \in known
            /\ known = {} => pc = "done" /\ Stores = 0 /\ Closes = 1

\* C14 witness: a document whose only service name is not a known type
\* was loaded and the call has ended with UnknownDocumentType.
C14_Witness ==
    /\ pc = "done"
    /\ Classified
    /\ loc.document.services = {OfficeDocument}
    /\ loc.error = "UnknownDocumentType"
    /\ Closes = 1

\* One pass over a document with n indexes, as remote operations.
Pass(n) ==
    [i \in 1..(n + 2) |->
        IF i = 1 THEN "refresh" ELSE IF i = 2 THEN "getDocumentIndexes" ELSE "update"]

\* C15: with update_index true and a document that has refresh and
\* getDocumentIndexes, the operations between the load and the
\* classification are exactly two passes, each a refresh, the index
\* enumeration and one update per index, and the export comes after the
\* classification; with update_index false there is no refresh, no index
\* enumeration and no update.
C15_TwoPasses ==
    /\ ( /\ Classified
         /\ req.update_index
         /\ loc.document.refreshable
         /\ loc.document.indexes ) =>
           LET n == loc.document.count
               head == <<"loadComponentFromURL">> \o Pass(n) \o Pass(n)
                           \o <<"getSupportedServiceNames">>
           IN  /\ Len(calls) >= Len(head)
               /\ SubSeq(calls, 1, Len(head)) = head
               /\ Count(calls, "refresh") = 2
               /\ Count(calls, "update") = 2 * n
    /\ Stores > 0 => Classified
    /\ (loc.loaded /\ ~req.update_index) =>
           /\ Count(calls, "refresh") = 0
           /\ Count(calls, "getDocumentIndexes") = 0
           /\ Count(calls, "update") = 0

\* C15 witness: a document with MaxIndexes indexes was refreshed in two
\* passes and exported.
C15_Witness ==
    /\ pc = "done"
    /\ loc.error = "none"
    /\ req.update_index
    /\ loc.document.indexes
    /\ loc.document.count = MaxIndexes
    /\ Count(calls, "update") = 2 * MaxIndexes
    /\ Stores = 1

\* The remote operations of a call that has loaded a document and
\* refreshes nothing, and the logs such a call can have: a prefix of the
\* pipeline, closed by the finally clause once the try was entered.
Pipeline ==
    <<"loadComponentFromURL", "getSupportedServiceNames", "queryTypeByURL",
      "storeToURL", "close">>

IsRun(log) ==
    \E k \in 1..4 :
        \/ log = SubSeq(Pipeline, 1, k)
        \/ k >= 2 /\ log = Append(SubSeq(Pipeline, 1, k), "close")

NotRefresh(op) == op # "refresh"

\* The engine itself raised from refresh().
RefreshRaised ==
    pc = "done" /\ loc.error = "RemoteError" /\ calls[Len(calls)] = "refresh"

Unsupported(doc) == ~doc.refreshable \/ ~doc.indexes

\* C16: with update_index true and a document without refresh or without
\* getDocumentIndexes, the loop ends in its first pass: no index is
\* enumerated or updated, refresh is called at most once, no
\* AttributeError leaves convert, and apart from that refresh the remote
\* operations of the call are those of a call with update_index false;
\* a successful call runs the whole pipeline.
C16_SkippedSilently ==
    /\ ( /\ loc.loaded
         /\ req.update_index
         /\ Unsupported(loc.document)
         /\ ~RefreshRaised ) =>
           /\ loc.ii = 0
           /\ Count(calls, "getDocumentIndexes") = 0
           /\ Count(calls, "update") = 0
           /\ Count(calls, "refresh") <= 1
           /\ loc.error # "AttributeError"
           /\ IsRun(SelectSeq(calls, NotRefresh))
           /\ (pc = "done" /\ loc.error = "none") =>
                  SelectSeq(calls, NotRefresh) = Pipeline
    /\ (loc.loaded /\ ~req.update_index) =>
           /\ IsRun(calls)
           /\ (pc = "done" /\ loc.error = "none") => calls = Pipeline

\* C16 witness: a spreadsheet, which has no refresh, was converted with
\* update_index true and the call returned.
C16_Witness ==
    /\ pc = "done"
    /\ loc.error = "none"
    /\ req.update_index
    /\ ~loc.document.refreshable
    /\ calls = Pipeline

\* Every a of the log is before every b of the log.
Before(a, b) ==
    \A i, j \in 1..Len(calls) : (calls[i] = a /\ calls[j] = b) => i < j

\* C17: in one call the load and the export are each invoked at most
\* once; when the export is invoked, the load has returned a document, the
\* refresh operations, then the classification, then the type detection
\* precede it in this order, a document type, an export type and a filter
\* name are set, and the close is the last operation of the call.
C17_NoRetryNoReorder ==
    /\ Loads <= 1
    /\ Stores <= 1
    /\ Count(calls, "getSupportedServiceNames") <= 1
    /\ Count(calls, "queryTypeByURL") <= 1
    /\ Closes <= 1
    /\ \A i \in 1..Len(calls) : calls[i] = "close" => i = Len(calls)
    /\ Stores > 0 =>
          /\ loc.loaded /\ calls[1] = "loadComponentFromURL"
          /\ \A r \in {"refresh", "getDocumentIndexes", "update"} :
                Before(r, "getSupportedServiceNames")
          /\ Classified /\ loc.import_type \in DOC_TYPES
          /\ Before("getSupportedServiceNames", "queryTypeByURL")
          /\ Count(calls, "queryTypeByURL") = 1 /\ Truthy(loc.export_type)
          /\ Before("queryTypeByURL", "storeToURL")
          /\ loc.filtername # None
          /\ Before("storeToURL", "close")

\* C17 witness: a call with two refresh passes has exported and closed.
C17_Witness ==
    /\ pc = "done"
    /\ Stores = 1
    /\ Closes = 1
    /\ Count(calls, "refresh") = 2
    /\ loc.error = "none"

CatalogNames(catalog) == { catalog[i].Name : i \in 1..Len(catalog) }

\* C18: whenever storeToURL is commanded, the FilterName of output_props
\* is the Name of a descriptor of the export catalog, whether find_filter
\* chose it or the caller gave an export filter name that is a key of the
\* export alias table.
C18_FilterNameCanonical ==
    Stores > 0 => loc.output_props.FilterName \in CatalogNames(exportCatalog)

CacheOf(d) == IF d = "import" THEN _import_filters ELSE _export_filters
CatalogOf(d) == IF d = "import" THEN importCatalog ELSE exportCatalog

\* C19: a cache is either unpopulated or holds the complete remote catalog
\* of its direction, also after an enumeration that raised partway, so
\* that every sequence returned by get_available_import_filters or
\* get_available_export_filters, and every sequence find_filter scanned,
\* is the complete catalog.
C19_NeverTruncated ==
    /\ \A d \in Directions :
          /\ CacheOf(d) # NoList => CacheOf(d) = <<CatalogOf(d)>>
          /\ first[d] # NoList => first[d] = <<CatalogOf(d)>>
          /\ repeats[d] # "differ"
    /\ (found.called /\ ~found.raised) => found.scanned = exportCatalog

\* C20: the table built by get_filter_names maps the Name of every
\* descriptor of the sequence to itself and every key to the Name of some
\* descriptor of the sequence, also when a later descriptor has a
\* UserData entry equal to that Name.
C20_NamesMapToThemselves ==
    names.called =>
        /\ \A i \in 1..Len(names.filters) :
              /\ names.filters[i].Name \in DOMAIN names.table
              /\ names.table[names.filters[i].Name] = names.filters[i].Name
        /\ \A k \in DOMAIN names.table :
              names.table[k] \in DescriptorNames(names.filters)

====
